---- MODULE Spec2Model ----
(***************************************************************************)
(* Model of src/main.py: the generator of the reindex/consolidation        *)
(* command report for the partial- backing indices of a data stream.       *)
(*                                                                         *)
(* Python strings are sequences of one-character strings, so that prefix   *)
(* tests, the two regular expressions, the lexicographic sort and the      *)
(* f-string concatenations are computed character by character.            *)
(* Optional values (int | None) are sequences of length at most one:       *)
(* <<>> is None, <<v>> is the value v.                                     *)
(***************************************************************************)
EXTENDS Integers, Sequences, FiniteSets, TLC

\* ------------------------------------------------------------------ bounds
\* Longest index listing the cluster returns.
MaxListing == 3

\* ------------------------------------------------------- characters/strings
Digits == <<"0","1","2","3","4","5","6","7","8","9">>

\* The characters of the modelled strings, in code point order.
Alphabet ==
    <<"\n","-",".","0","1","2","3","4","5","6","7","8","9",
      "a","b","c","d","e","f","g","h","i","j","k","l","m","n","o","p","q",
      "r","s","t","u","v","w","x","y","z">>

CharCode == [c \in {Alphabet[i] : i \in 1..Len(Alphabet)} |->
                CHOOSE i \in 1..Len(Alphabet) : Alphabet[i] = c]

IsDigit(c) == \E i \in 1..Len(Digits) : Digits[i] = c

DigitValue(c) == (CHOOSE i \in 1..Len(Digits) : Digits[i] = c) - 1

SetMin(S) == CHOOSE x \in S : \A y \in S : x <= y

SetMax(S) == CHOOSE x \in S : \A y \in S : x >= y

\* str.startswith(prefix)
StartsWith(s, prefix) ==
    /\ Len(s) >= Len(prefix)
    /\ SubSeq(s, 1, Len(prefix)) = prefix

\* \d{n} at position pos
DigitsAt(s, pos, n) ==
    /\ pos + n - 1 <= Len(s)
    /\ \A i \in pos..(pos + n - 1) : IsDigit(s[i])

\* int(digits): decimal value of a string of digits
RECURSIVE ParseInt(_)
ParseInt(ds) ==
    IF ds = <<>> THEN 0
    ELSE 10 * ParseInt(SubSeq(ds, 1, Len(ds) - 1)) + DigitValue(ds[Len(ds)])

\* Python's a < b on str: the first differing character decides, a proper
\* prefix is smaller.
StrLess(a, b) ==
    LET n == IF Len(a) < Len(b) THEN Len(a) ELSE Len(b)
        diffs == {i \in 1..n : a[i] # b[i]}
    IN  IF diffs = {} THEN Len(a) < Len(b)
        ELSE LET i == SetMin(diffs) IN CharCode[a[i]] < CharCode[b[i]]

\* list.sort() on a list of str (stable insertion; equal strings are
\* indistinguishable, so stability is unobservable).
RECURSIVE InsertSorted(_, _)
InsertSorted(sorted, x) ==
    IF sorted = <<>> THEN <<x>>
    ELSE IF StrLess(x, Head(sorted)) THEN <<x>> \o sorted
    ELSE <<Head(sorted)>> \o InsertSorted(Tail(sorted), x)

RECURSIVE SortStrings(_)
SortStrings(xs) ==
    IF xs = <<>> THEN <<>>
    ELSE InsertSorted(SortStrings(SubSeq(xs, 1, Len(xs) - 1)), xs[Len(xs)])

\* %Y.%m.%d of a date: zero padded year (4), month (2), day (2).
TwoDigits(n) == <<Digits[((n \div 10) % 10) + 1], Digits[(n % 10) + 1]>>

StrfDate(d) ==
    TwoDigits(d.year \div 100) \o TwoDigits(d.year % 100) \o <<".">>
        \o TwoDigits(d.month) \o <<".">> \o TwoDigits(d.day)

\* ----------------------------------------------------------- string literals
PARTIAL == <<"p","a","r","t","i","a","l","-">>

PARTIAL_REINDEX == <<"p","a","r","t","i","a","l","-","r","e","i","n","d","e","x","-">>

REINDEX == <<"r","e","i","n","d","e","x","-">>

DOT_DS == <<".","d","s","-">>

LARGE == <<"-","l","a","r","g","e","-">>


\* ----------------------------------------------------- regular expressions
\* -\d{4}\.\d{2}\.\d{2}-\d{6} at position p: the tail of the Step 3 pattern.
DateSerialAt(s, p) ==
    /\ p + 17 <= Len(s)
    /\ s[p] = "-"
    /\ DigitsAt(s, p + 1, 4)
    /\ s[p + 5] = "."
    /\ DigitsAt(s, p + 6, 2)
    /\ s[p + 8] = "."
    /\ DigitsAt(s, p + 9, 2)
    /\ s[p + 11] = "-"
    /\ DigitsAt(s, p + 12, 6)

\* The positions k at which the greedy .+ of the Step 3 pattern can end:
\* the name starts with partial-.ds-, .+ spans at least one character other
\* than a line break, and the date/serial tail follows.
DotPlusEnds(index) ==
    LET first == Len(PARTIAL) + Len(DOT_DS) + 1
    IN  IF ~StartsWith(index, PARTIAL \o DOT_DS) THEN {}
        ELSE {k \in first..Len(index) :
                /\ \A i \in first..k : index[i] # "\n"
                /\ DateSerialAt(index, k + 1)}

\* re.match(r"partial-(\.ds-.+-\d{4}\.\d{2}\.\d{2}-\d{6})", index): <<>> when
\* there is no match, else <<group(1)>>. The match is anchored at the start
\* only; .+ is greedy, so it ends at the last position a match allows.
PartialBaseMatch(index) ==
    LET ends == DotPlusEnds(index)
    IN  IF ends = {} THEN <<>>
        ELSE <<SubSeq(index, Len(PARTIAL) + 1, SetMax(ends) + 18)>>

\* The positions i where re.search(r'-(\d{6})$', index_name) can match: a
\* hyphen, six digits, then the end of the string or the line break that
\* ends it.
SuffixStarts(index_name) ==
    {i \in 1..Len(index_name) :
        /\ index_name[i] = "-"
        /\ DigitsAt(index_name, i + 1, 6)
        /\ \/ i + 6 = Len(index_name)
           \/ i + 7 = Len(index_name) /\ index_name[i + 7] = "\n"}

\* get_suffix_number: int(match.group(1)) if match else -1
get_suffix_number(index_name) ==
    LET starts == SuffixStarts(index_name)
    IN  IF starts = {} THEN -1
        ELSE LET i == SetMin(starts)
             IN  ParseInt(SubSeq(index_name, i + 1, i + 6))

\* --------------------------------------------------------------- the lister
\* An item of the cat.indices response is a dict; it is modelled by its
\* 'index' entry: <<>> when the key is missing, else <<name>>.
ItemTruthy(item) == item # <<>> /\ item[1] # <<>>

ListerKeeps_no_exclusion(item) ==
    /\ ItemTruthy(item)
    /\ StartsWith(item[1], PARTIAL)

\* The condition of the list comprehension.
ListerKeeps(item) ==
    /\ ItemTruthy(item)
    /\ StartsWith(item[1], PARTIAL)
    /\ ~StartsWith(item[1], PARTIAL_REINDEX)

RECURSIVE FilterItems(_)
FilterItems(items) ==
    IF items = <<>> THEN <<>>
    ELSE (IF ListerKeeps(Head(items)) THEN <<Head(items)[1]>> ELSE <<>>)
            \o FilterItems(Tail(items))

\* get_partial_indices_for_data_stream, given what es_client.cat.indices
\* did: raised, or returned the items.
get_partial_indices_for_data_stream(response) ==
    IF response.raises THEN <<>> ELSE FilterItems(response.items)

\* --------------------------------------------------------------- the reader
\* An entry of response["indices"]: JSON null (isdict FALSE) or a dict that
\* may hold lifecycle_date_millis (ldm) and may hold other keys.
EntryTruthy(e) == e.isdict /\ (e.other \/ e.ldm # <<>>)

get_lifecycle_date_millis_no_fallback(index_name, response) ==
    IF response.outcome # "ok" THEN <<>>
    ELSE IF ~(response.has_indices /\ DOMAIN response.indices # {}) THEN <<>>
    ELSE IF /\ index_name \in DOMAIN response.indices
            /\ EntryTruthy(response.indices[index_name])
         THEN response.indices[index_name].ldm
    ELSE <<>>

\* The reader's result for an ILM explain outcome. AttributeError on a null
\* entry is caught by `except Exception` and gives None.
get_lifecycle_date_millis(index_name, response) ==
    IF response.outcome # "ok" THEN <<>>
    ELSE IF ~(response.has_indices /\ DOMAIN response.indices # {}) THEN <<>>
    ELSE IF /\ index_name \in DOMAIN response.indices
            /\ EntryTruthy(response.indices[index_name])
         THEN response.indices[index_name].ldm
    ELSE IF Cardinality(DOMAIN response.indices) = 1
         THEN LET only == CHOOSE k \in DOMAIN response.indices : TRUE
              IN  IF response.indices[only].isdict
                  THEN response.indices[only].ldm
                  ELSE <<>>
    ELSE <<>>


\* ------------------------------------------------------------------- inputs
LOGS_APP_DEFAULT == <<"l","o","g","s","-","a","p","p","-","d","e","f","a","u","l","t">>

DAY1_SERIAL1 == <<"2","0","2","4",".","0","1",".","0","1","-","0","0","0","0","0","1">>

DAY2_SERIAL2 == <<"2","0","2","4",".","0","1",".","0","2","-","0","0","0","0","0","2">>

\* partial-.ds-logs-app-default-2024.01.01-000001
Partial1 == PARTIAL \o DOT_DS \o LOGS_APP_DEFAULT \o <<"-">> \o DAY1_SERIAL1

\* partial-.ds-logs-app-default-2024.01.02-000002
Partial2 == PARTIAL \o DOT_DS \o LOGS_APP_DEFAULT \o <<"-">> \o DAY2_SERIAL2

\* partial-.ds-b-2024.01.02-000002: another stream's name, same serial
PartialTie == PARTIAL \o DOT_DS \o <<"b","-">> \o DAY2_SERIAL2

\* partial-.ds-x-000009: no date, so Step 3 cannot parse it; serial 9
PartialNoDate == PARTIAL \o DOT_DS \o <<"x","-","0","0","0","0","0","9">>

\* partial-.ds-b-2024.01.02-0000027: Step 3 parses it (the pattern is not
\* anchored at the end), Step 5 finds no six-digit suffix
PartialLongSerial == PartialTie \o <<"7">>

\* partial-reindex-.ds-logs-app-default-2024.01.01-000001: residue of a run
PartialReindex == PARTIAL_REINDEX \o DOT_DS \o LOGS_APP_DEFAULT \o <<"-">> \o DAY1_SERIAL1

\* .ds-logs-app-default-2024.01.02-000002: a backing index that is not partial
Backing2 == DOT_DS \o LOGS_APP_DEFAULT \o <<"-">> \o DAY2_SERIAL2

NamePool ==
    {Partial1, Partial2, PartialTie, PartialNoDate, PartialLongSerial,
     PartialReindex, Backing2}

\* Items of a cat.indices response: a name, an empty name, or no 'index' key.
ItemPool == {<<n>> : n \in NamePool} \cup {<< <<>> >>, <<>>}

CatResponses ==
    {[raises |-> TRUE, items |-> <<>>]}
        \cup {[raises |-> FALSE, items |-> l] :
                l \in UNION {[1..n -> ItemPool] : n \in 0..MaxListing}}

DataStreams == {LOGS_APP_DEFAULT}

Dates == {[year |-> 2024, month |-> 1, day |-> 5],
          [year |-> 2025, month |-> 12, day |-> 31]}

\* lifecycle_date_millis values (scaled: the code only tests them for truth
\* and prints them)
LifecycleValues == {0, 1}

Entries ==
    {[isdict |-> FALSE, other |-> FALSE, ldm |-> <<>>],
     [isdict |-> TRUE, other |-> FALSE, ldm |-> <<>>],
     [isdict |-> TRUE, other |-> TRUE, ldm |-> <<>>]}
        \cup {[isdict |-> TRUE, other |-> TRUE, ldm |-> <<v>>] :
                v \in LifecycleValues}

\* What perform_request('GET', '/<index>/_ilm/explain') can do: raise, or
\* return a body without "indices", or one whose "indices" has some of keys.
IlmResponses(keys) ==
    {[outcome |-> o, has_indices |-> FALSE, indices |-> <<>>] :
        o \in {"NotFoundError", "Exception", "ok"}}
        \cup {[outcome |-> "ok", has_indices |-> TRUE, indices |-> f] :
                f \in UNION {[K -> Entries] : K \in SUBSET keys}}


\* -------------------------------------------------------------------- state
VARIABLES
    pc,                     \* position in generate_elasticsearch_reindex_commands
    es_client,              \* "None" or "client"
    ping_result,            \* <<>> or <<what es_client.ping() returned>>
    data_stream_name,
    today,                  \* datetime.date.today(), read in Step 6
    requests,               \* requests issued to the cluster, in order
    cat_response,           \* <<>> or <<what cat.indices did>>
    output,                 \* the list of text fragments
    partial_indices,
    reindex_temp_indices,
    most_recent_partial_index,  \* <<>> or <<name>>
    lifecycle_date_millis,  \* <<>> (None) or <<value>>
    large_index_name,
    exception,              \* "" or the exception that left the function
    reader_call             \* <<>> or <<a call of get_lifecycle_date_millis>>

vars ==
    <<pc, es_client, ping_result, data_stream_name, today, requests, cat_response, output,
      partial_indices, reindex_temp_indices, most_recent_partial_index,
      lifecycle_date_millis, large_index_name, exception, reader_call>>

\* A text fragment appended to output: which template, and what it embeds.
Frag(kind, index, dest, indices, value) ==
    [kind |-> kind, index |-> index, dest |-> dest, indices |-> indices,
     value |-> value]

Line(kind) == Frag(kind, <<>>, <<>>, <<>>, <<>>)

Separator == Line("separator")

Request(op, target) == [op |-> op, target |-> target]

\* Lines of text of a fragment (names hold no line break).
NumLines(frag) ==
    CASE frag.kind = "separator" -> 3
      [] frag.kind = "reindex_command" -> 12
      [] frag.kind \in {"count_command", "ilm_explain_command",
                        "confirm_command", "delete_command"} -> 3
      [] frag.kind = "consolidate_command" -> 11
      [] frag.kind = "settings_command" -> 7
      [] frag.kind = "ilm_move_command" -> 14
      [] frag.kind = "modify_data_stream_command" ->
            13 + 6 * Len(frag.indices)
      [] OTHER -> 1

RECURSIVE SumLines(_)
SumLines(frags) ==
    IF frags = <<>> THEN 0 ELSE NumLines(Head(frags)) + SumLines(Tail(frags))

\* Lines of "\n".join(output); the join of no fragment is one empty line.
ReportLines(frags) == IF frags = <<>> THEN 1 ELSE SumLines(frags)

Init ==
    /\ pc = "idle"
    /\ es_client = "None"
    /\ ping_result = <<>>
    /\ data_stream_name = <<>>
    /\ today = [year |-> 0, month |-> 0, day |-> 0]
    /\ requests = <<>>
    /\ cat_response = <<>>
    /\ output = <<>>
    /\ partial_indices = <<>>
    /\ reindex_temp_indices = <<>>
    /\ most_recent_partial_index = <<>>
    /\ lifecycle_date_millis = <<>>
    /\ large_index_name = <<>>
    /\ exception = ""
    /\ reader_call = <<>>

NotConnected_ignores_ping(client, ping) == client = "None"

\* if not es_client or not es_client.ping(): ping is only evaluated when
\* the handle is present.
NotConnected(client, ping) == client = "None" \/ ~ping

\* Lines 92-99: the call, the check of the handle, the title.
Call ==
    /\ pc = "idle"
    /\ \E client \in {"None", "client"}, ping \in BOOLEAN, dsn \in DataStreams :
        /\ client = "None" => ping = FALSE
        /\ es_client' = client
        /\ data_stream_name' = dsn
        /\ ping_result' = IF client = "None" THEN <<>> ELSE <<ping>>
        /\ requests' = IF client = "None" THEN <<>> ELSE <<Request("ping", <<>>)>>
        /\ IF NotConnected(client, ping)
           THEN /\ output' = <<Line("not_connected")>>
                /\ pc' = "returned"
           ELSE /\ output' = <<Frag("title", dsn, <<>>, <<>>, <<>>), Separator>>
                /\ pc' = "step3"
    /\ UNCHANGED <<today, cat_response, partial_indices, reindex_temp_indices,
                   most_recent_partial_index, lifecycle_date_millis,
                   large_index_name, exception, reader_call>>

\* ---------------------------------------------------------- Step 3 (101-137)
\* dest_index = f"reindex-{base_name}"
dest_index(base_name) == REINDEX \o base_name

Step3TempIndices_keep_unparsed(indices) ==
    [i \in 1..Len(indices) |->
        IF PartialBaseMatch(indices[i]) # <<>>
        THEN dest_index(PartialBaseMatch(indices[i])[1])
        ELSE REINDEX \o indices[i]]

\* reindex_temp_indices after the loop over the sorted partial indices.
RECURSIVE Step3TempIndices(_)
Step3TempIndices(indices) ==
    IF indices = <<>> THEN <<>>
    ELSE LET match == PartialBaseMatch(Head(indices))
         IN  (IF match # <<>> THEN <<dest_index(match[1])>> ELSE <<>>)
                \o Step3TempIndices(Tail(indices))

\* individual_reindex_commands after the loop.
RECURSIVE Step3Commands(_)
Step3Commands(indices) ==
    IF indices = <<>> THEN <<>>
    ELSE LET match == PartialBaseMatch(Head(indices))
         IN  (IF match # <<>>
              THEN <<Frag("reindex_command", Head(indices),
                          dest_index(match[1]), <<>>, <<>>)>>
              ELSE <<>>)
                \o Step3Commands(Tail(indices))

\* The warnings the loop appends to output.
RECURSIVE Step3Warnings(_)
Step3Warnings(indices) ==
    IF indices = <<>> THEN <<>>
    ELSE (IF PartialBaseMatch(Head(indices)) = <<>>
          THEN <<Frag("step3_parse_warning", Head(indices), <<>>, <<>>, <<>>)>>
          ELSE <<>>)
            \o Step3Warnings(Tail(indices))

\* Lines 102-105: the header and the call of the lister.
Step3List ==
    /\ pc = "step3"
    /\ \E resp \in CatResponses :
        /\ cat_response' = <<resp>>
        /\ partial_indices' = get_partial_indices_for_data_stream(resp)
    /\ requests' = Append(requests, Request("cat.indices", data_stream_name))
    /\ output' = Append(output, Line("step3_header"))
    /\ pc' = "step3_loop"
    /\ UNCHANGED <<es_client, ping_result, data_stream_name, today,
                   reindex_temp_indices, most_recent_partial_index,
                   lifecycle_date_millis, large_index_name, exception,
                   reader_call>>

\* Lines 107-137: the sort, the loop over the sorted indices.
Step3Loop ==
    /\ pc = "step3_loop"
    /\ LET sorted == SortStrings(partial_indices)
       IN  /\ partial_indices' = sorted
           /\ reindex_temp_indices' = Step3TempIndices(sorted)
           /\ output' = output \o
                    (IF partial_indices = <<>>
                     THEN <<Line("step3_no_partial_warning")>>
                     ELSE <<Line("step3_intro")>> \o Step3Warnings(sorted)
                            \o Step3Commands(sorted))
    /\ pc' = "step4"
    /\ UNCHANGED <<es_client, ping_result, data_stream_name, today, requests,
                   cat_response, most_recent_partial_index,
                   lifecycle_date_millis, large_index_name, exception,
                   reader_call>>

\* ---------------------------------------------------------- Step 4 (139-154)
\* reindex_temp_indices[i] raises IndexError when the list is shorter than
\* partial_indices.
Step4Raises ==
    /\ partial_indices # <<>>
    /\ reindex_temp_indices # <<>>
    /\ Len(reindex_temp_indices) < Len(partial_indices)

Step4 ==
    /\ pc = "step4"
    /\ IF partial_indices # <<>> /\ reindex_temp_indices # <<>>
       THEN IF Step4Raises
            THEN /\ output' = output \o <<Separator, Line("step4_header"),
                                         Line("step4_intro")>>
                 /\ exception' = "IndexError"
                 /\ pc' = "raised"
            ELSE /\ output' = output
                        \o <<Separator, Line("step4_header"), Line("step4_intro")>>
                        \o [i \in 1..Len(partial_indices) |->
                              Frag("count_command", partial_indices[i],
                                   reindex_temp_indices[i], <<>>, <<>>)]
                 /\ exception' = exception
                 /\ pc' = "step5"
       ELSE /\ output' = output \o <<Separator, Line("step4_header"),
                                    Line("step4_warning")>>
            /\ exception' = exception
            /\ pc' = "step5"
    /\ UNCHANGED <<es_client, ping_result, data_stream_name, today, requests, cat_response,
                   partial_indices, reindex_temp_indices,
                   most_recent_partial_index, lifecycle_date_millis,
                   large_index_name, reader_call>>


\* ---------------------------------------------------------- Step 5 (156-181)
RECURSIVE MaxFrom_last_wins(_, _)
MaxFrom_last_wins(best, rest) ==
    IF rest = <<>> THEN best
    ELSE MaxFrom_last_wins(
            IF get_suffix_number(Head(rest)) >= get_suffix_number(best)
            THEN Head(rest) ELSE best,
            Tail(rest))

\* max(iterable, key=...): the running best is replaced only by an element
\* with a strictly larger key.
RECURSIVE MaxFrom(_, _)
MaxFrom(best, rest) ==
    IF rest = <<>> THEN best
    ELSE MaxFrom(IF get_suffix_number(Head(rest)) > get_suffix_number(best)
                 THEN Head(rest) ELSE best,
                 Tail(rest))

\* most_recent_partial_index = max(partial_indices, key=get_suffix_number)
MostRecent(indices) == MaxFrom(Head(indices), Tail(indices))

\* Python's truth value of an int | None.
Truthy(optional) == optional # <<>> /\ optional[1] # 0

Step5 ==
    /\ pc = "step5"
    /\ IF partial_indices # <<>>
       THEN LET recent == MostRecent(partial_indices)
            IN  \E resp \in IlmResponses({recent, Backing2}) :
                  LET millis == get_lifecycle_date_millis(recent, resp)
                  IN  /\ most_recent_partial_index' = <<recent>>
                      /\ requests' = Append(requests, Request("ilm.explain", recent))
                      /\ lifecycle_date_millis' = millis
                      /\ output' = output
                            \o <<Separator, Line("step5_header"),
                                 Frag("step5_most_recent", recent, <<>>, <<>>, <<>>)>>
                            \o (IF Truthy(millis)
                                THEN <<Frag("step5_value", <<>>, <<>>, <<>>, millis)>>
                                ELSE <<Line("step5_no_value_warning")>>)
                            \o <<Line("step5_verify_intro"),
                                 Frag("ilm_explain_command", recent, <<>>, <<>>, <<>>)>>
       ELSE /\ output' = output \o <<Separator, Line("step5_header"),
                                    Line("step5_no_partial_warning")>>
            /\ UNCHANGED <<most_recent_partial_index, requests,
                           lifecycle_date_millis>>
    /\ pc' = "step6"
    /\ UNCHANGED <<es_client, ping_result, data_stream_name, today, cat_response,
                   partial_indices, reindex_temp_indices, large_index_name,
                   exception, reader_call>>

\* ---------------------------------------------------------- Step 6 (183-204)
\* large_index_name = f"reindex-.ds-{data_stream_name}-large-{current_date_str}"
LargeIndexName(dsn, date) == REINDEX \o DOT_DS \o dsn \o LARGE \o StrfDate(date)

Step6 ==
    /\ pc = "step6"
    /\ \E date \in Dates :
        LET large == LargeIndexName(data_stream_name, date)
        IN  /\ today' = date
            /\ large_index_name' = large
            /\ output' = output \o <<Separator, Line("step6_header")>> \o
                    (IF reindex_temp_indices # <<>>
                     THEN <<Frag("step6_intro", <<>>, large, <<>>, <<>>),
                            Frag("consolidate_command", <<>>, large,
                                 reindex_temp_indices, <<>>)>>
                     ELSE <<Line("step6_warning")>>)
    /\ pc' = "step7"
    /\ UNCHANGED <<es_client, ping_result, data_stream_name, requests, cat_response,
                   partial_indices, reindex_temp_indices,
                   most_recent_partial_index, lifecycle_date_millis, exception,
                   reader_call>>

\* ---------------------------------------------------------- Step 7 (206-237)
\* if lifecycle_date_millis and large_index_name:
Step7Ready == Truthy(lifecycle_date_millis) /\ large_index_name # <<>>

Step7 ==
    /\ pc = "step7"
    /\ output' = output \o <<Separator, Line("step7_header")>> \o
            (IF Step7Ready
             THEN <<Frag("step7_settings_intro", <<>>, large_index_name, <<>>, <<>>),
                    Frag("settings_command", <<>>, large_index_name, <<>>,
                         lifecycle_date_millis),
                    Line("step7_move_intro"),
                    Frag("ilm_move_command", <<>>, large_index_name, <<>>, <<>>)>>
             ELSE <<Line("step7_warning")>>)
    /\ pc' = "step8"
    /\ UNCHANGED <<es_client, ping_result, data_stream_name, today, requests, cat_response,
                   partial_indices, reindex_temp_indices,
                   most_recent_partial_index, lifecycle_date_millis,
                   large_index_name, exception, reader_call>>

\* ---------------------------------------------------------- Step 8 (239-276)
Step8 ==
    /\ pc = "step8"
    /\ output' = output \o <<Separator, Line("step8_header")>> \o
            (IF partial_indices # <<>> /\ large_index_name # <<>>
             THEN <<Frag("step8_intro", data_stream_name, large_index_name,
                         <<>>, <<>>),
                    Frag("modify_data_stream_command", data_stream_name,
                         large_index_name, partial_indices, <<>>),
                    Line("step8_confirm_intro"),
                    Frag("confirm_command", data_stream_name, <<>>, <<>>, <<>>)>>
             ELSE <<Line("step8_warning")>>)
    /\ pc' = "step9"
    /\ UNCHANGED <<es_client, ping_result, data_stream_name, today, requests, cat_response,
                   partial_indices, reindex_temp_indices,
                   most_recent_partial_index, lifecycle_date_millis,
                   large_index_name, exception, reader_call>>

\* ---------------------------------------------------------- Step 9 (278-293)
IndicesToDelete_with_large ==
    partial_indices \o reindex_temp_indices \o <<large_index_name>>

\* indices_to_delete = partial_indices + reindex_temp_indices
IndicesToDelete == partial_indices \o reindex_temp_indices

Step9 ==
    /\ pc = "step9"
    /\ output' = output \o <<Separator, Line("step9_header")>> \o
            (IF IndicesToDelete # <<>>
             THEN <<Line("step9_intro"),
                    Frag("delete_command", <<>>, <<>>, IndicesToDelete, <<>>)>>
             ELSE <<Line("step9_nothing_to_delete")>>)
    /\ pc' = "returned"
    /\ UNCHANGED <<es_client, ping_result, data_stream_name, today, requests, cat_response,
                   partial_indices, reindex_temp_indices,
                   most_recent_partial_index, lifecycle_date_millis,
                   large_index_name, exception, reader_call>>

Next == Call \/ Step3List \/ Step3Loop \/ Step4 \/ Step5 \/ Step6 \/ Step7 \/ Step8 \/ Step9

Spec == Init /\ [][Next]_vars

\* ------------------------------------------- the lifecycle reader on its own
InitReader ==
    /\ Init
    /\ pc = "idle"

ReaderCall ==
    /\ reader_call = <<>>
    /\ \E index_name \in NamePool :
        \E resp \in IlmResponses({index_name, Partial1, Backing2}) :
            reader_call' = <<[index_name |-> index_name, response |-> resp,
                              result |-> get_lifecycle_date_millis(index_name, resp)]>>
    /\ UNCHANGED <<pc, es_client, ping_result, data_stream_name, today, requests,
                   cat_response, output, partial_indices, reindex_temp_indices,
                   most_recent_partial_index, lifecycle_date_millis,
                   large_index_name, exception>>

NextReader == ReaderCall

SpecReader == InitReader /\ [][NextReader]_vars


\* ================================================================== claims
Range(seq) == {seq[i] : i \in 1..Len(seq)}

\* The fragments of the given kind, in the order of output.
OfKind(frags, kind) == SelectSeq(frags, LAMBDA f : f.kind = kind)

HasKind(frags, kind) == \E i \in 1..Len(frags) : frags[i].kind = kind

\* The handle was present and its liveness check succeeded.
Connected == es_client = "client" /\ ping_result = <<TRUE>>

\* The index names a fragment embeds.
NamesIn(frag) == ({frag.index, frag.dest} \cup Range(frag.indices)) \ {<<>>}

\* The name matches the Step 3 pattern (stated on the name, not on the
\* match object): partial-.ds-, at least one character, and somewhere after
\* it -YYYY.MM.DD-NNNNNN.
Parsable(name) ==
    /\ StartsWith(name, PARTIAL \o DOT_DS)
    /\ \E p \in (Len(PARTIAL \o DOT_DS) + 2)..Len(name) : DateSerialAt(name, p)

\* The serial of a name ending in -NNNNNN, else -1.
TrailingSerial(name) ==
    LET n == Len(name)
    IN  IF n >= 7 /\ name[n - 6] = "-" /\ \A i \in (n - 5)..n : IsDigit(name[i])
        THEN DigitValue(name[n - 5]) * 100000 + DigitValue(name[n - 4]) * 10000
                + DigitValue(name[n - 3]) * 1000 + DigitValue(name[n - 2]) * 100
                + DigitValue(name[n - 1]) * 10 + DigitValue(name[n])
        ELSE -1

\* The command kinds of Steps 4 to 9 that embed index names.
LaterCommandKinds ==
    {"count_command", "step5_most_recent", "ilm_explain_command",
     "consolidate_command", "modify_data_stream_command", "delete_command"}

CommandKinds ==
    {"reindex_command", "count_command", "ilm_explain_command",
     "consolidate_command", "settings_command", "ilm_move_command",
     "modify_data_stream_command", "confirm_command", "delete_command"}

StepHeaders ==
    {"step3_header", "step4_header", "step5_header", "step6_header",
     "step7_header", "step8_header", "step9_header"}

\* C1: whenever Step 4 pairs the two lists (both are non-empty), the
\* original list and the derived list have the same length, so every
\* position of partial_indices has a derived name.
C1_PairingListsEqualLength ==
    (pc = "step4" /\ partial_indices # <<>> /\ reindex_temp_indices # <<>>)
        => Len(partial_indices) = Len(reindex_temp_indices)

\* C2: once the handle is present and the liveness check succeeded, no
\* exception leaves the function, and the returned report holds the header
\* of every one of Steps 3 to 9.
C2_NeverFailsAfterConnect ==
    Connected =>
        /\ pc # "raised"
        /\ exception = ""
        /\ pc = "returned" => \A h \in StepHeaders : HasKind(output, h)

\* C3: the most recent partial index is an element of the sorted list whose
\* serial (-1 without a six-digit suffix) is the largest of the list, and it
\* is the first element of the sorted list with that serial.
C3_MostRecentIsFirstLargestSerial ==
    most_recent_partial_index # <<>> =>
        /\ \A i, j \in 1..Len(partial_indices) :
             i < j => ~StrLess(partial_indices[j], partial_indices[i])
        /\ \E i \in 1..Len(partial_indices) :
             /\ partial_indices[i] = most_recent_partial_index[1]
             /\ \A j \in 1..Len(partial_indices) :
                  TrailingSerial(partial_indices[j]) <= TrailingSerial(partial_indices[i])
             /\ \A j \in 1..(i - 1) :
                  TrailingSerial(partial_indices[j]) < TrailingSerial(partial_indices[i])

\* C3 witness: two names tie on the largest serial, a third has no six-digit
\* suffix; the first of the tie in sorted order is selected.
C3_Witness ==
    /\ most_recent_partial_index = <<PartialTie>>
    /\ partial_indices = <<PartialTie, PartialLongSerial, Partial2>>

\* C4: the lister returns exactly the listed names that start with partial-
\* and not with partial-reindex-, in the order of the listing.
C4_ListerKeepsExactlyPartial ==
    (pc = "step3_loop" /\ ~cat_response[1].raises) =>
        LET items == cat_response[1].items
            Q == {i \in 1..Len(items) :
                    /\ items[i] # <<>>
                    /\ StartsWith(items[i][1], PARTIAL)
                    /\ ~StartsWith(items[i][1], PARTIAL_REINDEX)}
        IN  /\ Len(partial_indices) = Cardinality(Q)
            /\ \A i \in Q :
                 partial_indices[Cardinality({j \in Q : j <= i})] = items[i][1]

\* C4 witness: a listing with a partial-reindex- name first and two partial
\* names in descending order; the two are returned in the listing's order.
C4_Witness ==
    /\ pc = "step3_loop"
    /\ cat_response = <<[raises |-> FALSE,
                         items |-> <<<<PartialReindex>>, <<Partial2>>, <<Partial1>>>>]>>
    /\ partial_indices = <<Partial2, Partial1>>

\* C5: with the handle absent or the liveness check false, the function has
\* returned a report of one line, the connection error, and issued neither
\* the index listing nor the lifecycle request.
C5_NotConnectedOneLine ==
    (pc # "idle" /\ (es_client = "None" \/ ping_result = <<FALSE>>)) =>
        /\ pc = "returned"
        /\ output = <<Line("not_connected")>>
        /\ ReportLines(output) = 1
        /\ \A i \in 1..Len(requests) :
             requests[i].op \notin {"cat.indices", "ilm.explain"}

\* C5 witness: the handle is present and ping returned false.
C5_Witness ==
    /\ pc = "returned"
    /\ es_client = "client"
    /\ ping_result = <<FALSE>>

\* C6: a partial index whose name does not match the Step 3 pattern appears
\* in no command of Steps 4 to 9.
C6_UnparsedSkippedInLaterSteps ==
    \A i \in 1..Len(output) :
        output[i].kind \in LaterCommandKinds =>
            \A name \in NamesIn(output[i]) \cap Range(partial_indices) :
                Parsable(name)

\* C7: once Step 7 has run, it emitted the settings command with the
\* lifecycle value and the ILM move command if the reader returned a value,
\* and the warning only if the value is absent.
C7_Step7EmitsWheneverValue ==
    pc \in {"step8", "step9", "returned"} /\ Connected =>
        IF lifecycle_date_millis # <<>>
        THEN /\ OfKind(output, "settings_command") =
                    <<Frag("settings_command", <<>>, large_index_name, <<>>,
                           lifecycle_date_millis)>>
             /\ HasKind(output, "ilm_move_command")
             /\ ~HasKind(output, "step7_warning")
        ELSE /\ HasKind(output, "step7_warning")
             /\ ~HasKind(output, "settings_command")
             /\ ~HasKind(output, "ilm_move_command")


\* The report when no partial index was found: every step's warning.
AllWarningsReport ==
    <<Frag("title", data_stream_name, <<>>, <<>>, <<>>), Separator,
      Line("step3_header"), Line("step3_no_partial_warning"),
      Separator, Line("step4_header"), Line("step4_warning"),
      Separator, Line("step5_header"), Line("step5_no_partial_warning"),
      Separator, Line("step6_header"), Line("step6_warning"),
      Separator, Line("step7_header"), Line("step7_warning"),
      Separator, Line("step8_header"), Line("step8_warning"),
      Separator, Line("step9_header"), Line("step9_nothing_to_delete")>>

\* C8: when the lister returned no partial index, the output never holds a
\* command block, the lifecycle request is never issued, and the returned
\* report is the warning of each of Steps 3 to 8 and the nothing-to-delete
\* message of Step 9.
C8_NoPartialOnlyWarnings ==
    (Connected /\ pc \notin {"idle", "step3", "step3_loop"}
        /\ partial_indices = <<>>) =>
        /\ \A i \in 1..Len(output) : output[i].kind \notin CommandKinds
        /\ \A i \in 1..Len(requests) : requests[i].op # "ilm.explain"
        /\ pc = "returned" => output = AllWarningsReport

\* C8 witness: the listing request failed and the report was returned.
C8_Witness ==
    /\ pc = "returned"
    /\ Connected
    /\ cat_response = <<[raises |-> TRUE, items |-> <<>>]>>

\* reindex-.ds-logs-app-default-2024.01.01-000001 and ...-2024.01.02-000002
ExampleTempIndices ==
    <<<<"r","e","i","n","d","e","x","-",".","d","s","-","l","o","g","s","-",
        "a","p","p","-","d","e","f","a","u","l","t","-","2","0","2","4",".",
        "0","1",".","0","1","-","0","0","0","0","0","1">>,
      <<"r","e","i","n","d","e","x","-",".","d","s","-","l","o","g","s","-",
        "a","p","p","-","d","e","f","a","u","l","t","-","2","0","2","4",".",
        "0","1",".","0","2","-","0","0","0","0","0","2">>>>

\* base is the part of name that the Step 3 pattern captures: name is
\* partial- then base then a rest, base is .ds-, some characters, and
\* -YYYY.MM.DD-NNNNNN, and no longer such part of name exists.
IsMatchedBase(name, base) ==
    LET rest == SubSeq(name, Len(PARTIAL) + 1, Len(name))
    IN  /\ StartsWith(name, PARTIAL)
        /\ StartsWith(rest, base)
        /\ StartsWith(base, DOT_DS)
        /\ Len(base) >= Len(DOT_DS) + 1 + 18
        /\ DateSerialAt(base, Len(base) - 17)
        /\ \A n \in (Len(base) + 1)..Len(rest) : ~DateSerialAt(rest, n - 17)

\* C9: after Step 3, the derived list holds, for the parsable names of the
\* sorted partial list and in their order, reindex- followed by the matched
\* base; the reindex commands of Step 3 are one per entry, from that partial
\* index to that entry; the consolidation command of Step 6 has exactly the
\* derived list as its sources; the two names of the example give the two
\* derived names of the example.
C9_DerivedTempIndices ==
    (Connected /\ pc \notin {"idle", "step3", "step3_loop"}) =>
        LET P == partial_indices
            T == reindex_temp_indices
            Q == {i \in 1..Len(P) : Parsable(P[i])}
            rank(i) == Cardinality({j \in Q : j <= i})
            cmds == OfKind(output, "reindex_command")
        IN  /\ \A i, j \in 1..Len(P) : i < j => ~StrLess(P[j], P[i])
            /\ Len(T) = Cardinality(Q)
            /\ \A i \in Q :
                 /\ StartsWith(T[rank(i)], REINDEX)
                 /\ IsMatchedBase(P[i], SubSeq(T[rank(i)], Len(REINDEX) + 1,
                                               Len(T[rank(i)])))
            /\ Len(cmds) = Cardinality(Q)
            /\ \A i \in Q :
                 cmds[rank(i)] = Frag("reindex_command", P[i], T[rank(i)], <<>>, <<>>)
            /\ pc \in {"step7", "step8", "step9", "returned"} =>
                 OfKind(output, "consolidate_command") =
                    IF T = <<>> THEN <<>>
                    ELSE <<Frag("consolidate_command", <<>>, large_index_name, T, <<>>)>>
            /\ P = <<Partial1, Partial2>> => T = ExampleTempIndices

\* C9 witness: the report for the two partial indices of the example.
C9_Witness ==
    /\ pc = "returned"
    /\ partial_indices = <<Partial1, Partial2>>
    /\ reindex_temp_indices = ExampleTempIndices
    /\ HasKind(output, "consolidate_command")

\* The lifecycle_date_millis field of an entry; absent for JSON null.
FieldOf(entry) == IF entry.isdict THEN entry.ldm ELSE <<>>

\* C10: the reader returns the field of the entry keyed by the index name
\* when there is one; else the field of the only entry when there is exactly
\* one; else, and on every error, None.
C10_ReaderResult ==
    reader_call # <<>> =>
        LET call == reader_call[1]
            resp == call.response
            keys == DOMAIN resp.indices
        IN  call.result =
                IF resp.outcome # "ok" \/ ~resp.has_indices THEN <<>>
                ELSE IF call.index_name \in keys
                     THEN FieldOf(resp.indices[call.index_name])
                ELSE IF Cardinality(keys) = 1
                     THEN FieldOf(resp.indices[CHOOSE k \in keys : TRUE])
                ELSE <<>>

\* C10 witness: the only entry is keyed by another name and holds a value,
\* which the reader returns.
C10_Witness ==
    /\ reader_call # <<>>
    /\ reader_call[1].response.outcome = "ok"
    /\ reader_call[1].response.has_indices
    /\ DOMAIN reader_call[1].response.indices = {Backing2}
    /\ reader_call[1].index_name = PartialTie
    /\ reader_call[1].result = <<1>>

====
